---------------------------- MODULE Spec2Model ----------------------------
(***************************************************************************)
(* Model of splitscreen-cli (src/src/splitscreen.rs): Config::prepare, the *)
(* layout and split planner, and Config::render, the per-frame compositor  *)
(* fed by one reader thread per tile through a bounded channel.            *)
(*                                                                         *)
(* Times (checkpoints, pause, probed duration) are f64 seconds in the      *)
(* source.  The model counts them in half seconds: every such value and    *)
(* its product with an integer fps is exact in f64, so `(s * fps + 0.5) as *)
(* u32` is exactly (s2 * fps + 1) \div 2 and `s as u32` is s2 \div 2.      *)
(*                                                                         *)
(* u32 values: the source computes in u32.  With overflow checks (debug    *)
(* builds) an overflowing operation panics; without them (release builds)  *)
(* it wraps modulo 2^32.  A wrapped value v >= 2^31 is represented here by *)
(* the integer v - 2^32 (a negative number), so + and - on representatives *)
(* are the wrapped operations, and ULe is the order of the u32 values.     *)
(* Which build runs is part of the environment; a run that starts with the *)
(* build "any" decides it at the first operation that overflows.           *)
(***************************************************************************)
EXTENDS Integers, Sequences, FiniteSets, TLC

VARIABLES
    cfg,            \* Config: width, height, fps, cmp, pause, inputs
    probe,          \* what ffprobe reports per input: ok, width, height, time
    env,            \* ffprobe / ffmpeg / font found, and the build: "debug" has
                    \* overflow checks, "release" wraps, "any" is undecided
    pc,             \* "config", "planned", "rendering", "done"
    prep,           \* outcome of prepare: "none", "ok", "err_*", "panic"
    info,           \* RenderInfo returned by prepare
    spawned,        \* number of external processes spawned so far
    frame_idx,      \* render: the loop variable
    tile_idx,       \* render: next tile to service in this frame (1..n, n+1: sink)
    frame_cmp_start,\* render: the loss anchor (None is -1)
    queue,          \* per tile: the sync_channel's buffer (frame numbers)
    reader,         \* per tile: "read", "send", "done"
    hand,           \* per tile: frame the reader holds between read and send
    emitted,        \* per tile: frames the decoder has delivered to the reader
    rx_alive,       \* the receivers exist (render has not returned)
    popped,         \* per tile: frames the compositor took from the queue
    canvas,         \* per tile: what the shared frame shows in the tile
    overlay,        \* per tile: the diff drawn at the last serviced frame
    freezes,        \* log of desaturations: <<tile, split_idx, frame_idx>>
    sink,           \* log of sink invocations: <<frame_idx, payload>>
    stopped,        \* frame at which the sink returned stop (-1: it has not)
    result,         \* outcome of render: "none", "ok", "error", "panic"
    out,            \* the sink: "callback" (any closure) or "raw" (render_raw)
    written,        \* render_raw: log of write_all calls: <<frame_idx, outcome>>
    time_str,       \* the argument of parse_split_time, a sequence of characters
    parsed,         \* what parse_split_time returned
    text            \* what format_time returned, a sequence of characters

vars == <<cfg, probe, env, pc, prep, info, spawned, frame_idx, tile_idx,
          frame_cmp_start, queue, reader, hand, emitted, rx_alive, popped,
          canvas, overlay, freezes, sink, stopped, result, out, written,
          time_str, parsed, text>>

timeVars == <<time_str, parsed, text>>

renderVars == <<frame_idx, tile_idx, frame_cmp_start, queue, reader, hand,
                emitted, rx_alive, popped, canvas, overlay, freezes, sink,
                stopped, result>>

----------------------------------------------------------------------------
(* u32 arithmetic on representatives *)

\* the order of the u32 values: a negative representative is a value >= 2^31
ULe(a, b) == IF (a < 0) = (b < 0) THEN a <= b ELSE b < 0
ULt(a, b) == ULe(a, b) /\ a # b
UMax(a, b) == IF ULe(a, b) THEN b ELSE a
UMin(a, b) == IF ULe(a, b) THEN a ELSE b
\* a - b underflows; a + b overflows
SubOvf(a, b) == ULt(a, b)
AddOvf(a, b) == (a < 0 /\ b < 0) \/ ((a < 0) # (b < 0) /\ a + b >= 0)

\* (s * fps + 0.5) as u32, s in half seconds
Round(s2, fps) == (s2 * fps + 1) \div 2
\* (s as u32) * fps and (s * fps) as u32, s in half seconds
Trunc(s2) == s2 \div 2
TruncMul(s2, fps) == (s2 * fps) \div 2

SeqSum(s) ==
    LET RECURSIVE go(_)
        go(k) == IF k = 0 THEN 0 ELSE go(k - 1) + s[k]
    IN go(Len(s))

----------------------------------------------------------------------------
(* Config::prepare: the layout *)

tiles_x(n) == CHOOSE i \in 1..(n + 1) : i * i >= n /\ \A j \in 1..(i - 1) : j * j < n
tiles_y(n) == (n + tiles_x(n) - 1) \div tiles_x(n)
box_width(c, n) == c.width \div tiles_x(n)
box_height(c, n) == c.height \div tiles_x(n)
tiles_off_x(c, n) == c.width \div 2 - (tiles_x(n) * box_width(c, n)) \div 2
tiles_off_y(c, n) == c.height \div 2 - (tiles_y(n) * box_height(c, n)) \div 2
tiles_last_row(n) == IF n % tiles_x(n) = 0 THEN tiles_x(n) ELSE n % tiles_x(n)
tiles_off_x_last(c, n) == c.width \div 2 - (tiles_last_row(n) * box_width(c, n)) \div 2

pause_frames(c) == Round(c.pause, c.fps)

\* mutant of FitSize: always the height-locked scale
FitSize_HeightLocked(c, n, w, h) ==
    <<(w * box_height(c, n)) \div h, box_height(c, n)>>

\* mutant of FitSize: always the width-locked scale
FitSize_WidthLocked(c, n, w, h) ==
    <<box_width(c, n), (h * box_width(c, n)) \div w>>

\* the aspect-preserving fit of a w x h source in the box (lines 129-136)
FitSize(c, n, w, h) ==
    LET w1 == box_width(c, n)
        h1 == (h * box_width(c, n)) \div w
        w2 == (w * box_height(c, n)) \div h
        h2 == box_height(c, n)
    IN  IF w1 <= box_width(c, n) /\ h1 <= box_height(c, n)
        THEN <<w1, h1>> ELSE <<w2, h2>>

tile_offset(c, t) == Trunc(c.inputs[t][1]) * c.fps

\* RenderTileInfo of input t (t = i + 1), before its splits are pushed
Tile(c, p, t) ==
    LET n == Len(c.inputs)
        fit == FitSize(c, n, p[t].width, p[t].height)
        tx == (t - 1) % tiles_x(n)
        ty == (t - 1) \div tiles_x(n)
        off_x == IF ty = tiles_y(n) - 1 THEN tiles_off_x_last(c, n)
                 ELSE tiles_off_x(c, n)
    IN  [ input  |-> t,
          offset |-> tile_offset(c, t),
          length |-> TruncMul(p[t].time, c.fps) - tile_offset(c, t),
          x      |-> off_x + tx * box_width(c, n) + box_width(c, n) \div 2
                         - fit[1] \div 2,
          y      |-> tiles_off_y(c, n) + ty * box_height(c, n)
                         + box_height(c, n) \div 2 - fit[2] \div 2,
          width  |-> fit[1],
          height |-> fit[2],
          splits |-> << >> ]

\* a u32 subtraction of lines 114-123 or 148-156 underflows for input t
TileOvf(c, p, t) ==
    LET n == Len(c.inputs)
        fit == FitSize(c, n, p[t].width, p[t].height)
        tx == (t - 1) % tiles_x(n)
        ty == (t - 1) \div tiles_x(n)
        off_x == IF ty = tiles_y(n) - 1 THEN tiles_off_x_last(c, n)
                 ELSE tiles_off_x(c, n)
    IN  \/ tiles_off_x(c, n) < 0
        \/ tiles_off_y(c, n) < 0
        \/ tiles_off_x_last(c, n) < 0
        \/ SubOvf(TruncMul(p[t].time, c.fps), tile_offset(c, t))
        \/ SubOvf(off_x + tx * box_width(c, n) + box_width(c, n) \div 2,
                  fit[1] \div 2)
        \/ SubOvf(tiles_off_y(c, n) + ty * box_height(c, n)
                    + box_height(c, n) \div 2, fit[2] \div 2)

----------------------------------------------------------------------------
(* Config::prepare: the split loop (lines 164-192) *)

t_last(c, t, i) ==
    IF i = 1 THEN 0
    ELSE Round(c.inputs[t][i - 1], c.fps) - tile_offset(c, t) + 1
\* mutant of t_next: the frame count without the + 1
t_next_NoPlusOne(c, t, i) == Round(c.inputs[t][i], c.fps) - tile_offset(c, t)
t_next(c, t, i) == Round(c.inputs[t][i], c.fps) - tile_offset(c, t) + 1
t_split(c, t, i) == t_next(c, t, i) - t_last(c, t, i)

\* some u32 operation of lines 173-180 overflows for tile t at checkpoint i
SplitOvf(c, t, i) ==
    \/ i > 1 /\ SubOvf(Round(c.inputs[t][i - 1], c.fps), tile_offset(c, t))
    \/ i > 1 /\ AddOvf(Round(c.inputs[t][i - 1], c.fps) - tile_offset(c, t), 1)
    \/ SubOvf(Round(c.inputs[t][i], c.fps), tile_offset(c, t))
    \/ AddOvf(Round(c.inputs[t][i], c.fps) - tile_offset(c, t), 1)
    \/ SubOvf(t_next(c, t, i), t_last(c, t, i))

\* mutant of t_max: only the first tile is looked at
t_max_First(c, i) == t_split(c, 1, i)
\* mutant of t_max: the segment ends with its fastest tile
t_max_Min(c, i) ==
    LET S == {t_split(c, t, i) : t \in 1..Len(c.inputs)}
    IN  CHOOSE m \in S : \A x \in S : ULe(m, x)
\* t_max after the inner loop over the tiles: the u32 maximum, from 0
t_max(c, i) ==
    LET S == {0} \cup {t_split(c, t, i) : t \in 1..Len(c.inputs)}
    IN  CHOOSE m \in S : \A x \in S : ULe(x, m)

\* mutant of LoopStep: no pause after the last checkpoint
LoopStep_NoTrailingPause(c, length, i) ==
    length + t_max(c, i) + (IF i < Len(c.inputs[1]) THEN pause_frames(c) ELSE 0)

\* what the loop adds to length after checkpoint i (lines 186-191)
LoopStep(c, length, i) == length + t_max(c, i) + pause_frames(c)

\* the outer loop, checkpoints i..n_splits, from the accumulators in acc
RECURSIVE SplitLoop(_, _, _)
SplitLoop(c, i, acc) ==
    IF i > Len(c.inputs[1]) THEN acc
    ELSE
        LET n == Len(c.inputs)
            length == acc.length
            after == length + t_max(c, i)
        IN  SplitLoop(c, i + 1,
              [ start  |-> IF i = 1 THEN after ELSE acc.start,
                length |-> LoopStep(c, length, i),
                pauses |-> Append(acc.pauses, after),
                splits |-> [t \in 1..n |->
                              Append(acc.splits[t],
                                     <<length, length + t_split(c, t, i)>>)],
                ovf    |-> \/ acc.ovf
                           \/ \E t \in 1..n : SplitOvf(c, t, i)
                           \/ \E t \in 1..n : AddOvf(length, t_split(c, t, i))
                           \/ AddOvf(length, t_max(c, i))
                           \/ AddOvf(after, pause_frames(c)) ])

SplitPlan(c) ==
    SplitLoop(c, 1, [ start |-> 0, length |-> 0, pauses |-> << >>,
                      splits |-> [t \in 1..Len(c.inputs) |-> << >>],
                      ovf |-> FALSE ])

NoInfo == [ start |-> 0, length |-> 0, tiles |-> << >>, pauses |-> << >> ]

\* RenderInfo (line 194)
Plan(c, p) ==
    LET sp == SplitPlan(c)
    IN  [ start  |-> sp.start,
          length |-> sp.length,
          tiles  |-> [t \in 1..Len(c.inputs) |->
                        [Tile(c, p, t) EXCEPT !.splits = sp.splits[t]]],
          pauses |-> sp.pauses ]

\* some u32 operation of prepare overflows
PrepareOvf(c, p) ==
    SplitPlan(c).ovf \/ \E t \in 1..Len(c.inputs) : TileOvf(c, p, t)

\* mutant of PrepareStatus: the probe's output is not checked
PrepareStatus_ProbeUnchecked(c, p, e) ==
    LET n == Len(c.inputs) IN
    IF ~e.ffprobe THEN "err_ffprobe"
    ELSE IF n = 0 THEN "panic"
    ELSE IF \E t \in 1..n : Len(c.inputs[t]) # Len(c.inputs[1]) THEN "err_count"
    ELSE IF Len(c.inputs[1]) = 0 THEN "err_zero"
    ELSE IF e.build = "debug" /\ PrepareOvf(c, p) THEN "panic"
    ELSE "ok"

\* the outcome of prepare: the first failing check decides (lines 70-106),
\* then the panics of the arithmetic (a division by zero in either build,
\* an overflow when overflow checks are on)
PrepareStatus(c, p, e) ==
    LET n == Len(c.inputs) IN
    IF ~e.ffprobe THEN "err_ffprobe"
    ELSE IF n = 0 THEN "panic"
    ELSE IF \E t \in 1..n : Len(c.inputs[t]) # Len(c.inputs[1]) THEN "err_count"
    ELSE IF Len(c.inputs[1]) = 0 THEN "err_zero"
    ELSE IF \E t \in 1..n : ~p[t].ok THEN "err_probe"
    ELSE IF \E t \in 1..n : p[t].width = 0 \/ p[t].height = 0 THEN "panic"
    ELSE IF e.build = "debug" /\ PrepareOvf(c, p) THEN "panic"
    ELSE "ok"

\* processes spawned by prepare: the one find_exec leaves running, then one
\* ffprobe per input until a probe fails
PrepareSpawns(c, p, e) ==
    LET n == Len(c.inputs)
        st == PrepareStatus(c, p, e)
    IN  IF st = "err_ffprobe" THEN 0
        ELSE IF st \in {"err_count", "err_zero"} \/ n = 0 THEN 1
        ELSE IF st = "err_probe"
             THEN 1 + (CHOOSE t \in 1..n : ~p[t].ok /\ \A u \in 1..(t - 1) : p[u].ok)
        ELSE 1 + n

----------------------------------------------------------------------------
(* bounds of the model and the sets the inputs are drawn from *)

MaxTiles == 5       \* layout: sources 1..MaxTiles
MaxCanvas == 6      \* layout: canvas sides 1..MaxCanvas
MaxSplits == 2      \* checkpoints per source 0..MaxSplits
MaxTime == 3        \* checkpoint times 0..MaxTime half seconds
MaxPause == 2       \* pause 0..MaxPause half seconds

NativeSizes == {<<4, 3>>, <<1, 3>>, <<7, 2>>}
FpsSet == {1, 2}
CmpModes == {"None", "TimeLoss", "TimeSave"}

\* all checkpoint lists, in any order (the order is not validated)
SplitLists == UNION {[1..k -> 0..MaxTime] : k \in 0..MaxSplits}

GoodEnv == [ffprobe |-> TRUE, ffmpeg |-> TRUE, font |-> TRUE, build |-> "any"]
Probe(size, time) == [ok |-> TRUE, width |-> size[1], height |-> size[2], time |-> time]
LongTime == 2 * MaxTime + 2

\* the state before prepare, for configuration c, probe answers p, environment e
StartAs(c, p, e, o) ==
    /\ time_str = << >>
    /\ parsed = [status |-> "none"]
    /\ text = << >>
    /\ out = o
    /\ written = << >>
    /\ cfg = c
    /\ probe = p
    /\ env = e
    /\ pc = "config"
    /\ prep = "none"
    /\ info = NoInfo
    /\ spawned = 0
    /\ frame_idx = 0
    /\ tile_idx = 1
    /\ frame_cmp_start = -1
    /\ queue = << >>
    /\ reader = << >>
    /\ hand = << >>
    /\ emitted = << >>
    /\ rx_alive = FALSE
    /\ popped = << >>
    /\ canvas = << >>
    /\ overlay = << >>
    /\ freezes = << >>
    /\ sink = << >>
    /\ stopped = -1
    /\ result = "none"

\* a run whose sink is an arbitrary closure
Start(c, p, e) == StartAs(c, p, e, "callback")

\* layouts: every source count, canvas and native size, one checkpoint each
InitLayout ==
    \E n \in 1..MaxTiles, w \in 1..MaxCanvas, h \in 1..MaxCanvas :
    \E sizes \in [1..n -> NativeSizes] :
        Start([width |-> w, height |-> h, fps |-> 1, cmp |-> "None", pause |-> 0,
               inputs |-> [t \in 1..n |-> <<2>>]],
              [t \in 1..n |-> Probe(sizes[t], LongTime)], GoodEnv)

\* split lists: every list per source, in both builds
InitSplits ==
    \E n \in 0..2, fps \in FpsSet, ps \in 0..MaxPause :
    \E ins \in [1..n -> SplitLists] :
        Start([width |-> 8, height |-> 6, fps |-> fps, cmp |-> "None", pause |-> ps,
               inputs |-> ins],
              [t \in 1..n |-> Probe(<<4, 3>>, LongTime)], GoodEnv)

\* the environment: ffprobe missing, a probe that fails, a video that ends
\* before its first checkpoint
InitEnv ==
    \E found \in BOOLEAN, bad \in 0..2, time \in {1, LongTime},
       build \in {"debug", "release"} :
    \E ins \in [1..2 -> {<<>>, <<3>>, <<2, 3>>}] :
        Start([width |-> 8, height |-> 6, fps |-> 2, cmp |-> "None", pause |-> 1,
               inputs |-> ins],
              [t \in 1..2 |-> [Probe(<<4, 3>>, time) EXCEPT !.ok = (t # bad)]],
              [GoodEnv EXCEPT !.ffprobe = found, !.build = build])

\* the end-to-end case: two sources, one checkpoint at 2.0 s, 10 fps, 640x480
InitEndToEnd ==
    \E sizes \in [1..2 -> NativeSizes \cup {<<1920, 1080>>}] :
        Start([width |-> 640, height |-> 480, fps |-> 10, cmp |-> "None", pause |-> 0,
               inputs |-> [t \in 1..2 |-> <<4>>]],
              [t \in 1..2 |-> Probe(sizes[t], 20)], GoodEnv)

----------------------------------------------------------------------------
(* Config::prepare (lines 70-195) *)

\* the builds a run with build b can turn out to be when an operation
\* overflows (ovf) or none does
Builds(b, ovf) == IF b = "any" /\ ovf THEN {"debug", "release"} ELSE {b}

\* prepare gets as far as its arithmetic
Computes(c, p, e) ==
    /\ e.ffprobe
    /\ Len(c.inputs) > 0
    /\ \A t \in 1..Len(c.inputs) :
          Len(c.inputs[t]) = Len(c.inputs[1]) /\ Len(c.inputs[t]) > 0 /\ p[t].ok

Prepare ==
    /\ pc = "config"
    /\ \E b \in Builds(env.build, Computes(cfg, probe, env) /\ PrepareOvf(cfg, probe)) :
          env' = [env EXCEPT !.build = b]
    /\ prep' = PrepareStatus(cfg, probe, env')
    /\ info' = IF prep' = "ok" THEN Plan(cfg, probe) ELSE NoInfo
    /\ spawned' = spawned + PrepareSpawns(cfg, probe, env')
    /\ pc' = IF prep' = "ok" THEN "planned" ELSE "done"
    /\ UNCHANGED <<cfg, probe, out, written>>
    /\ UNCHANGED renderVars
    /\ UNCHANGED timeVars

InitPrepare == InitLayout \/ InitSplits \/ InitEnv \/ InitEndToEnd

SpecPrepare == InitPrepare /\ [][Prepare]_vars

----------------------------------------------------------------------------
(* Config::render (lines 312-482) *)

MaxDec == 3         \* a decoder delivers at most MaxDec frames

None == -1
NoOverlay == [shown |-> FALSE, inv |-> FALSE, diff |-> 0, sign |-> "", color |-> ""]
Black == [img |-> 0, gray |-> FALSE]

\* mutant of split_idx: the first entry of splits with start <= f
split_idx_First(tile, f) ==
    CHOOSE i \in 1..Len(tile.splits) :
        /\ ULe(tile.splits[i][1], f)
        /\ \A j \in 1..(i - 1) : ~ULe(tile.splits[j][1], f)
\* the segment of frame f: the last entry of splits with start <= f
\* (lines 369-371)
split_idx(tile, f) ==
    CHOOSE i \in 1..Len(tile.splits) :
        /\ ULe(tile.splits[i][1], f)
        /\ \A j \in (i + 1)..Len(tile.splits) : ~ULe(tile.splits[j][1], f)

\* mutant of OverlayOf: sign and colour of the two cases swapped
OverlayOf_Swapped(inv, diff) ==
    [ shown |-> TRUE, inv |-> inv, diff |-> diff,
      sign  |-> IF diff = 0 THEN "" ELSE IF inv THEN "+" ELSE "-",
      color |-> IF diff = 0 THEN "white" ELSE IF inv THEN "red" ELSE "green" ]
\* sign and colour of the overlay text (lines 427-436)
OverlayOf(inv, diff) ==
    [ shown |-> TRUE, inv |-> inv, diff |-> diff,
      sign  |-> IF diff = 0 THEN "" ELSE IF inv THEN "-" ELSE "+",
      color |-> IF diff = 0 THEN "white" ELSE IF inv THEN "green" ELSE "red" ]

\* mutant of freeze_now: every waiting frame desaturates
freeze_now_Every(f, end) == TRUE
\* the test of line 391, inside the waiting branch
freeze_now(f, end) == f = end

\* mutant of AnchorReset: the anchor survives the start of a segment
AnchorReset_Never(f, start, a) == a
\* lines 375-377: the loss anchor is dropped at the first frame of a segment
AnchorReset(f, start, a) == IF f = start THEN None ELSE a

\* mutant of Stamps: a waiting tile stamps the anchor in both modes
Stamps_AnyMode(mode) == mode # "None"
\* lines 408-413: only the TimeLoss arm of the match stamps the anchor
Stamps(mode) == mode = "TimeLoss"

\* one tile of one frame, up to the diff (lines 369-425): what the iteration
\* does for tile t at frame f with the loss anchor a
Service(t, f, a) ==
    LET tile == info.tiles[t]
        si == split_idx(tile, f)
        start == tile.splits[si][1]
        end == tile.splits[si][2]
        a1 == AnchorReset(f, start, a)
        plays == ULt(f, end)
        waits == ~plays /\ start # 0
        a2 == IF waits /\ Stamps(cfg.cmp) /\ a1 = None THEN f ELSE a1
        save == waits /\ cfg.cmp = "TimeSave"
        m_save == UMin(f, info.pauses[si])
        m_loss == UMin(f, end)
    IN  [ split   |-> si,
          plays   |-> plays,
          freeze  |-> ~plays /\ freeze_now(f, end),
          anchor  |-> a2,
          diff    |-> IF a2 # None THEN OverlayOf(FALSE, m_loss - a2)
                      ELSE IF save THEN OverlayOf(TRUE, m_save - end)
                      ELSE NoOverlay,
          saved   |-> save,
          ovf     |-> \/ save /\ SubOvf(m_save, end)
                      \/ a2 # None /\ SubOvf(m_loss, a2) ]

\* render returns or unwinds: the receivers are dropped
Return(res) ==
    /\ pc' = "done"
    /\ result' = res
    /\ rx_alive' = FALSE

\* lines 315-365: find ffmpeg and the font, spawn one decoder per tile, one
\* channel and one reader thread per tile; an empty plan returns at once
RenderStart ==
    /\ pc = "planned"
    /\ frame_idx' = 0
    /\ tile_idx' = 1
    /\ frame_cmp_start' = None
    /\ UNCHANGED <<cfg, probe, env, prep, info, freezes, sink, stopped, out, written>>
    /\ UNCHANGED timeVars
    /\ IF ~env.ffmpeg \/ ~env.font
       THEN /\ Return("error")
            /\ spawned' = spawned + (IF env.ffmpeg THEN 1 ELSE 0)
            /\ UNCHANGED <<queue, reader, hand, emitted, popped, canvas, overlay>>
       ELSE /\ spawned' = spawned + 1 + Len(info.tiles)
            /\ queue' = [t \in 1..Len(info.tiles) |-> << >>]
            /\ reader' = [t \in 1..Len(info.tiles) |-> "read"]
            /\ hand' = [t \in 1..Len(info.tiles) |-> 0]
            /\ emitted' = [t \in 1..Len(info.tiles) |-> 0]
            /\ popped' = [t \in 1..Len(info.tiles) |-> << >>]
            /\ canvas' = [t \in 1..Len(info.tiles) |-> Black]
            /\ overlay' = [t \in 1..Len(info.tiles) |-> NoOverlay]
            /\ IF info.length = 0
               THEN Return("ok")
               ELSE pc' = "rendering" /\ result' = "none" /\ rx_alive' = TRUE

\* the reader thread of tile t reads one frame from its decoder, or the
\* stream has ended or failed and the thread ends (lines 350-353)
ReaderRead(t) ==
    /\ pc \in {"rendering", "done"}
    /\ t \in DOMAIN reader
    /\ reader[t] = "read"
    /\ \/ /\ emitted[t] < MaxDec
          /\ emitted' = [emitted EXCEPT ![t] = @ + 1]
          /\ hand' = [hand EXCEPT ![t] = emitted[t] + 1]
          /\ reader' = [reader EXCEPT ![t] = "send"]
       \/ /\ reader' = [reader EXCEPT ![t] = "done"]
          /\ UNCHANGED <<emitted, hand>>
    /\ UNCHANGED <<cfg, probe, env, pc, prep, info, spawned, frame_idx, tile_idx,
                   frame_cmp_start, queue, rx_alive, popped, canvas, overlay,
                   freezes, sink, stopped, result, out, written>>
    /\ UNCHANGED timeVars

\* mutant of CanSend: the channel is unbounded
CanSend_Unbounded(t) == TRUE
\* the buffer of sync_channel(fps) has room (line 344)
CanSend(t) == Len(queue[t]) < cfg.fps

\* mutant of SendFails: send goes on after the receiver is gone
SendFails_Never == FALSE
\* tx.send returns Err (line 355): the receiver has been dropped
SendFails == ~rx_alive

\* tx.send (lines 355-357): fails when the receiver is gone, blocks while
\* the buffer holds fps frames
ReaderSend(t) ==
    /\ pc \in {"rendering", "done"}
    /\ t \in DOMAIN reader
    /\ reader[t] = "send"
    /\ IF SendFails
       THEN /\ reader' = [reader EXCEPT ![t] = "done"]
            /\ UNCHANGED queue
       ELSE /\ CanSend(t)
            /\ queue' = [queue EXCEPT ![t] = Append(@, hand[t])]
            /\ reader' = [reader EXCEPT ![t] = "read"]
    /\ hand' = [hand EXCEPT ![t] = 0]
    /\ UNCHANGED <<cfg, probe, env, pc, prep, info, spawned, frame_idx, tile_idx,
                   frame_cmp_start, emitted, rx_alive, popped, canvas, overlay,
                   freezes, sink, stopped, result, out, written>>
    /\ UNCHANGED timeVars

\* mutant of RecvReady: recv does not notice that the sender is gone
RecvReady_NoHangup(t) == queue[t] # << >>
\* channel.recv (line 380) returns: a frame is buffered, or the sender is
\* gone
RecvReady(t) == queue[t] # << >> \/ reader[t] = "done"

\* mutant of RecvOk: recv fails as soon as the sender is gone
RecvOk_SenderAlive(t) == queue[t] # << >> /\ reader[t] # "done"
\* channel.recv (line 380) returns Ok: a frame is buffered, whether or not
\* the sender is gone
RecvOk(t) == queue[t] # << >>

\* mutant of Recv: the newest buffered frame is taken
Recv_Newest(q) == [frame |-> q[Len(q)], rest |-> SubSeq(q, 1, Len(q) - 1)]
\* what recv takes from a buffer that is not empty: the oldest frame
Recv(q) == [frame |-> Head(q), rest |-> Tail(q)]

\* the loop body for one tile (lines 368-468)
ServiceTile ==
    /\ pc = "rendering"
    /\ tile_idx <= Len(info.tiles)
    /\ LET t == tile_idx
           sv == Service(t, frame_idx, frame_cmp_start)
       IN  /\ sv.plays => RecvReady(t)
           /\ IF sv.plays /\ RecvOk(t)
              THEN /\ canvas' = [canvas EXCEPT ![t] =
                                   [img |-> Recv(queue[t]).frame, gray |-> FALSE]]
                   /\ popped' = [popped EXCEPT ![t] = Append(@, Recv(queue[t]).frame)]
                   /\ queue' = [queue EXCEPT ![t] = Recv(@).rest]
              ELSE /\ canvas' = [canvas EXCEPT ![t] =
                                   IF sv.plays THEN Black
                                   ELSE IF sv.freeze THEN [@ EXCEPT !.gray = TRUE]
                                   ELSE @]
                   /\ UNCHANGED <<popped, queue>>
           /\ freezes' = IF sv.freeze THEN Append(freezes, <<t, sv.split, frame_idx>>)
                         ELSE freezes
           /\ frame_cmp_start' = sv.anchor
           /\ \E b \in Builds(env.build, sv.ovf) :
                /\ env' = [env EXCEPT !.build = b]
                /\ IF sv.ovf /\ b = "debug"
                   THEN /\ Return("panic")
                        /\ UNCHANGED <<overlay, tile_idx>>
                   ELSE /\ overlay' = [overlay EXCEPT ![t] = sv.diff]
                        /\ tile_idx' = tile_idx + 1
                        /\ UNCHANGED <<pc, result, rx_alive>>
    /\ UNCHANGED <<cfg, probe, prep, info, spawned, frame_idx, reader, hand,
                   emitted, sink, stopped, out, written>>
    /\ UNCHANGED timeVars

\* mutant of Payload: the frame at start is still withheld
Payload_StartWithheld(f) ==
    IF ULe(f, info.start) THEN [frame |-> FALSE, tiles |-> << >>, text |-> << >>]
    ELSE [frame |-> TRUE, tiles |-> canvas, text |-> overlay]
\* what the sink is given at frame f (lines 470-478)
Payload(f) ==
    IF ULt(f, info.start) THEN [frame |-> FALSE, tiles |-> << >>, text |-> << >>]
    ELSE [frame |-> TRUE, tiles |-> canvas, text |-> overlay]

\* mutant of Breaks: the answer of the sink is ignored
Breaks_Never(answer) == FALSE
\* `if !output(..)? { break; }` (lines 471-477)
Breaks(answer) == answer = "stop"

\* the outcomes of output.write_all (line 297)
WriteResults == {"ok", "broken_pipe", "failed"}

\* mutant of RawAnswer: a broken pipe is an error like any other
RawAnswer_PipeFatal(payload, w) ==
    IF ~payload.frame \/ w = "ok" THEN "continue" ELSE "error"
\* the closure of render_raw (lines 292-309): what it answers for a payload
\* when write_all has outcome w; nothing is written without a frame
RawAnswer(payload, w) ==
    IF ~payload.frame THEN "continue"
    ELSE IF w = "ok" THEN "continue"
    ELSE IF w = "broken_pipe" THEN "stop"
    ELSE "error"

\* the loop after the sink has answered (lines 470-481): an error returns
\* it, stop breaks the loop, and after the last frame render returns
Answered(answer) ==
    /\ stopped' = IF answer = "stop" THEN frame_idx ELSE stopped
    /\ IF answer = "error"
       THEN /\ Return("error")
            /\ UNCHANGED <<frame_idx, tile_idx>>
       ELSE IF Breaks(answer)
       THEN /\ Return("ok")
            /\ UNCHANGED <<frame_idx, tile_idx>>
       ELSE /\ frame_idx' = frame_idx + 1
            /\ tile_idx' = 1
            /\ IF frame_idx + 1 = info.length
               THEN Return("ok")
               ELSE UNCHANGED <<pc, result, rx_alive>>

\* output((frame_idx, ..)) after all tiles of the frame (lines 470-479):
\* a closure answers continue, stop or an error; the closure of render_raw
\* writes the frame and answers by the outcome of the write
Sink ==
    /\ pc = "rendering"
    /\ tile_idx = Len(info.tiles) + 1
    /\ sink' = Append(sink, <<frame_idx, Payload(frame_idx)>>)
    /\ IF out = "raw"
       THEN \E w \in WriteResults :
               /\ written' = IF Payload(frame_idx).frame
                             THEN Append(written, <<frame_idx, w>>) ELSE written
               /\ Answered(RawAnswer(Payload(frame_idx), w))
       ELSE /\ written' = written
            /\ \E answer \in {"continue", "stop", "error"} : Answered(answer)
    /\ UNCHANGED <<cfg, probe, env, prep, info, spawned, frame_cmp_start, queue,
                   reader, hand, emitted, popped, canvas, overlay, freezes, out>>
    /\ UNCHANGED timeVars

\* the checkpoint lists of the renders: one or two checkpoints at 0, 0.5 or
\* 1.0 s, non-decreasing
RenderTimes == {0, 1, 2}
RenderLists ==
    {l \in UNION {[1..k -> RenderTimes] : k \in {1, 2}} :
        \A k \in 1..(Len(l) - 1) : l[k] <= l[k + 1]}

\* renders: one or two sources with checkpoint lists of the same length,
\* every fps, pause and comparison mode, the build undecided
InitRender ==
    \E n \in 1..2, fps \in FpsSet, ps \in 0..MaxPause, mode \in CmpModes :
    \E ins \in [1..n -> RenderLists] :
        /\ \A t \in 1..n : Len(ins[t]) = Len(ins[1])
        /\ Start([width |-> 8, height |-> 6, fps |-> fps, cmp |-> mode, pause |-> ps,
                  inputs |-> ins],
                 [t \in 1..n |-> Probe(<<4, 3>>, LongTime)], GoodEnv)

\* renders through render_raw: two sources, no comparison mode
InitRaw ==
    \E fps \in FpsSet, ps \in {0, 1} :
    \E ins \in [1..2 -> RenderLists] :
        /\ Len(ins[1]) = Len(ins[2])
        /\ StartAs([width |-> 8, height |-> 6, fps |-> fps, cmp |-> "None",
                    pause |-> ps, inputs |-> ins],
                   [t \in 1..2 |-> Probe(<<4, 3>>, LongTime)], GoodEnv, "raw")

\* renders that cannot start: ffmpeg or the font is missing
InitRenderEnv ==
    \E ffmpeg \in BOOLEAN, font \in BOOLEAN :
        Start([width |-> 8, height |-> 6, fps |-> 1, cmp |-> "None", pause |-> 0,
               inputs |-> <<(<<1>>), (<<2>>)>>],
              [t \in 1..2 |-> Probe(<<4, 3>>, LongTime)],
              [GoodEnv EXCEPT !.ffmpeg = ffmpeg, !.font = font])

Init == InitRender \/ InitRaw \/ InitRenderEnv

Next ==
    \/ Prepare
    \/ RenderStart
    \/ ServiceTile
    \/ Sink
    \/ \E t \in 1..2 : ReaderRead(t)
    \/ \E t \in 1..2 : ReaderSend(t)

Spec == Init /\ [][Next]_vars

\* the scheduling: the compositor thread and every reader thread run when
\* they can, a decoder delivers its next frame or ends its stream, and the
\* sink returns
Fairness ==
    /\ WF_vars(Prepare)
    /\ WF_vars(RenderStart)
    /\ WF_vars(ServiceTile)
    /\ WF_vars(Sink)
    /\ \A t \in 1..2 : WF_vars(ReaderRead(t)) /\ WF_vars(ReaderSend(t))

\* the renders checked with the scheduling: one or two sources, every fps
\* (the queue capacity), a pause of 0 or 0.5 s, with the loss overlay (whose
\* subtraction can end the render by a panic)
InitLive ==
    \E n \in 1..2, fps \in FpsSet, ps \in {0, 1}, mode \in {"TimeLoss"} :
    \E ins \in [1..n -> RenderLists] :
        /\ \A t \in 1..n : Len(ins[t]) = Len(ins[1])
        /\ Start([width |-> 8, height |-> 6, fps |-> fps, cmp |-> mode, pause |-> ps,
                  inputs |-> ins],
                 [t \in 1..n |-> Probe(<<4, 3>>, LongTime)], GoodEnv)

SpecLive == InitLive /\ [][Next]_vars /\ Fairness

----------------------------------------------------------------------------
(* properties of prepare, checked under SpecPrepare *)

NumInputs == Len(cfg.inputs)
NumSplits == Len(cfg.inputs[1])
Planned == prep = "ok"
IsEndToEnd ==
    /\ cfg.width = 640 /\ cfg.height = 480 /\ cfg.fps = 10
    /\ cfg.pause = 0 /\ cfg.cmp = "None"
    /\ cfg.inputs = <<(<<4>>), (<<4>>)>>

\* C1 as stated: in the end-to-end case the plan has length 20 and start 20
\* and both tiles are 320 wide.
C1_Original ==
    (IsEndToEnd /\ Planned) =>
        /\ info.length = 20 /\ info.start = 20
        /\ \A t \in 1..2 : info.tiles[t].width = 320

\* C1 amended: in the end-to-end case the plan has length 1 and start 1
\* (decoding starts at the first checkpoint: offset 20, one frame left in
\* the first segment), each tile lies in its own half of the canvas width,
\* and it is 320 wide exactly when the source fits width-locked
\* (height * 320 / width <= 240).
C1_EndToEnd ==
    (IsEndToEnd /\ Planned) =>
        /\ info.length = 1 /\ info.start = 1
        /\ info.pauses = <<1>>
        /\ \A t \in 1..2 :
              /\ info.tiles[t].offset = 20
              /\ info.tiles[t].splits = <<(<<0, 1>>)>>
              /\ info.tiles[t].x >= (t - 1) * 320
              /\ info.tiles[t].x + info.tiles[t].width <= t * 320
              /\ (info.tiles[t].width = 320) <=>
                    ((probe[t].height * 320) \div probe[t].width <= 240)

C1_Witness ==
    /\ IsEndToEnd /\ Planned
    /\ info.tiles[1].width = 320 /\ info.tiles[2].width < 320

\* the synchronized segment length of checkpoint i: the largest t_split
SyncLen(c, i) ==
    LET S == {t_split(c, t, i) : t \in 1..Len(c.inputs)}
    IN  CHOOSE m \in S : \A x \in S : ULe(x, m)
SyncTotal(c) == SeqSum([i \in 1..Len(c.inputs[1]) |-> SyncLen(c, i)])

\* C2 as stated: length is the sum of the synchronized segment lengths plus
\* (checkpointCount - 1) pauses.
C2_Original ==
    Planned => info.length = SyncTotal(cfg) + (NumSplits - 1) * pause_frames(cfg)

\* C2 amended: length is the sum of the synchronized segment lengths plus
\* checkpointCount pauses of round(pauseSeconds * fps) frames: a pause is
\* added after every checkpoint, the last one too.
C2_Length ==
    Planned => info.length = SyncTotal(cfg) + NumSplits * pause_frames(cfg)

C2_Witness ==
    /\ Planned /\ NumInputs = 2 /\ NumSplits = 2 /\ pause_frames(cfg) > 0
    /\ t_split(cfg, 1, 1) < t_split(cfg, 2, 1)
    /\ t_split(cfg, 1, 2) > t_split(cfg, 2, 2)
    /\ t_split(cfg, 2, 2) > 0

\* the conditions of the claim and of the code, stated on the inputs
BadCounts ==
    \E t \in 1..NumInputs :
        Len(cfg.inputs[t]) = 0 \/ Len(cfg.inputs[t]) # Len(cfg.inputs[1])
ProbeFails == \E t \in 1..NumInputs : ~probe[t].ok
\* a u32 subtraction of prepare underflows: the rounded checkpoint frames of
\* a source decrease somewhere, or a video ends before its first checkpoint
Underflows ==
    \E t \in 1..NumInputs :
        \/ \E i \in 1..(Len(cfg.inputs[t]) - 1) :
              Round(cfg.inputs[t][i + 1], cfg.fps) < Round(cfg.inputs[t][i], cfg.fps)
        \/ TruncMul(probe[t].time, cfg.fps) < Trunc(cfg.inputs[t][1]) * cfg.fps
IsError == prep \in {"err_ffprobe", "err_count", "err_zero", "err_probe"}

C4_Layout ==
    Planned =>
        /\ tiles_x(NumInputs) * tiles_x(NumInputs) >= NumInputs
        /\ (tiles_x(NumInputs) - 1) * (tiles_x(NumInputs) - 1) < NumInputs
        /\ tiles_x(NumInputs) * tiles_y(NumInputs) >= NumInputs
        /\ (tiles_y(NumInputs) - 1) * tiles_x(NumInputs) < NumInputs
        /\ \A t \in 1..NumInputs :
              /\ info.tiles[t].x >= 0 /\ info.tiles[t].y >= 0
              /\ info.tiles[t].width >= 0 /\ info.tiles[t].height >= 0
              /\ info.tiles[t].x + info.tiles[t].width <= cfg.width
              /\ info.tiles[t].y + info.tiles[t].height <= cfg.height

C4_Witness ==
    /\ Planned /\ NumInputs = 5 /\ cfg.width = 6 /\ cfg.height = 5
    /\ info.tiles[5].x > info.tiles[4].x
    /\ info.tiles[5].width < box_width(cfg, 5)
    /\ info.tiles[4].height < box_height(cfg, 5)

----------------------------------------------------------------------------
(* properties of render, checked under Spec *)

NumTiles == Len(info.tiles)
Rendering == pc = "rendering"
\* render ran through all frames: it returned Ok and the sink never said stop
Completed == pc = "done" /\ result = "ok" /\ stopped = None /\ prep = "ok"
\* tile t has been serviced for frame_idx
Serviced(t) == t < tile_idx
SegStart(t, i) == info.tiles[t].splits[i][1]
SegEnd(t, i) == info.tiles[t].splits[i][2]

\* C5: the sink is invoked once per frame index, 0, 1, 2, ... in order, up
\* to plan.length - 1 unless it stops the render; it is given no payload
\* exactly when frameIndex < plan.start, and the canvas as composited for
\* that frame otherwise.
C5_SinkOrder ==
    /\ \A k \in 1..Len(sink) :
          /\ sink[k][1] = k - 1
          /\ sink[k][2].frame <=> (k - 1 >= info.start)
    /\ Rendering => Len(sink) = frame_idx
    /\ Completed => Len(sink) = info.length
    /\ (Len(sink) > 0 /\ sink[Len(sink)][2].frame /\ result # "panic"
            /\ (pc = "done" \/ tile_idx = 1))
          => (sink[Len(sink)][2].tiles = canvas /\ sink[Len(sink)][2].text = overlay)

C5_Witness ==
    /\ Completed /\ Len(sink) >= 5 /\ info.start = 2
    /\ ~sink[2][2].frame /\ sink[3][2].frame
    /\ sink[3][2].tiles[1] = [img |-> 2, gray |-> TRUE]
    /\ sink[4][2].tiles[1] = [img |-> 3, gray |-> FALSE]

\* C6: once the sink has returned stop at frame k, render has returned Ok,
\* the sink has been invoked for 0..k only and is not invoked again, and no
\* further frame is popped from any queue.
C6_Stop ==
    /\ [](stopped # None =>
            /\ pc = "done" /\ result = "ok"
            /\ Len(sink) = stopped + 1
            /\ stopped < info.length)
    /\ [][stopped # None => (sink' = sink /\ popped' = popped /\ queue' = queue
                               /\ stopped' = stopped /\ result' = result)]_vars

C6_Witness ==
    /\ stopped = 1 /\ info.length > 3 /\ NumTiles = 2
    /\ queue[1] # << >> /\ reader[2] = "send"

\* how often the freeze step was applied to tile t in segment i
FreezeCount(t, i) ==
    Cardinality({k \in 1..Len(freezes) : freezes[k][1] = t /\ freezes[k][2] = i})
\* the frame at which the segment after segment i starts, plan.length after
\* the last one
NextStart(t, i) ==
    IF i < Len(info.tiles[t].splits) THEN SegStart(t, i + 1) ELSE info.length

\* C7 as stated: in a render that runs to plan.length the freeze step is
\* applied exactly once for every tile and segment, at frameIndex ==
\* segmentEnd.
C7_Original ==
    Completed =>
        \A t \in 1..NumTiles : \A i \in 1..Len(info.tiles[t].splits) :
            /\ FreezeCount(t, i) = 1
            /\ \A k \in 1..Len(freezes) :
                  (freezes[k][1] = t /\ freezes[k][2] = i) => freezes[k][3] = SegEnd(t, i)

\* C7 amended: the freeze step is applied to a tile only at the frame equal
\* to the segmentEnd of its current segment and at most once per segment;
\* in a render that runs to plan.length it is applied for exactly the
\* segments whose segmentEnd is smaller than the start of the next segment
\* (plan.length after the last): never where the tile is the slowest one of
\* the segment and the pause length is 0.
C7_Freeze ==
    /\ \A k \in 1..Len(freezes) :
          freezes[k][3] = SegEnd(freezes[k][1], freezes[k][2])
    /\ \A t \in 1..NumTiles : \A i \in 1..Len(info.tiles[t].splits) :
          /\ FreezeCount(t, i) <= 1
          /\ Completed =>
                /\ (FreezeCount(t, i) = 1) <=> (SegEnd(t, i) < NextStart(t, i))
                /\ (FreezeCount(t, i) = 0) <=>
                      (SegEnd(t, i) = info.pauses[i] /\ pause_frames(cfg) = 0)

C7_Witness ==
    /\ Completed /\ NumTiles = 2 /\ Len(info.pauses) = 2
    /\ pause_frames(cfg) = 0
    /\ FreezeCount(1, 2) = 1 /\ FreezeCount(2, 2) = 0
    /\ FreezeCount(1, 1) = 0 /\ FreezeCount(2, 1) = 1

\* C8: in TimeSave mode every overlay diff is min(frameIndex,
\* pauses[checkpointIndex]) - segmentEnd computed without underflow, so it
\* is >= 0 and no subtraction panics or wraps; it is 0 at frameIndex ==
\* segmentEnd; the overlay is drawn exactly while the tile waits in a
\* segment that does not start at 0.
C8_TimeSave ==
    (cfg.cmp = "TimeSave" /\ pc \in {"rendering", "done"}) =>
        /\ result # "panic" /\ env.build = "any"
        /\ \A t \in DOMAIN overlay :
              /\ overlay[t].shown => (overlay[t].inv /\ overlay[t].diff >= 0)
              /\ (Rendering /\ Serviced(t)) =>
                    LET si == split_idx(info.tiles[t], frame_idx) IN
                    /\ overlay[t].shown <=>
                          (frame_idx >= SegEnd(t, si) /\ SegStart(t, si) # 0)
                    /\ (overlay[t].shown /\ frame_idx = SegEnd(t, si))
                          => overlay[t].diff = 0
                    /\ (overlay[t].shown /\ frame_idx <= info.pauses[si])
                          => overlay[t].diff = frame_idx - SegEnd(t, si)
                    /\ (overlay[t].shown /\ frame_idx > info.pauses[si])
                          => overlay[t].diff = info.pauses[si] - SegEnd(t, si)

C8_Witness ==
    /\ cfg.cmp = "TimeSave" /\ Rendering /\ NumTiles = 2 /\ tile_idx = 3
    /\ Len(info.pauses) = 2 /\ frame_idx > info.pauses[2]
    /\ overlay[1].shown /\ overlay[1].diff = 1
    /\ overlay[2].shown /\ overlay[2].diff = 0

\* the frames the reader of tile t has read and not yet passed on
InHand(t) == IF reader[t] = "send" THEN <<hand[t]>> ELSE << >>

\* C9: while render runs, a queue never holds more than fps frames, and
\* the frames the reader has read from the decoder are, in order and each
\* once, those handed to the compositor, those in the queue and the one
\* the reader is pushing.
C9_Bounded ==
    rx_alive =>
        \A t \in 1..NumTiles :
            /\ Len(queue[t]) <= cfg.fps
            /\ popped[t] \o queue[t] \o InHand(t) = [k \in 1..emitted[t] |-> k]

C9_Witness ==
    /\ rx_alive /\ cfg.fps = 1 /\ NumTiles = 2
    /\ popped[1] = <<1>> /\ queue[1] = <<2>> /\ reader[1] = "send" /\ hand[1] = 3
    /\ popped[2] = <<1>> /\ queue[2] = << >>

\* frame indices for which tile t has been serviced so far
Services(t) == frame_idx + (IF Serviced(t) THEN 1 ELSE 0)

\* C10: the k-th frame the compositor takes from the queue of a tile is
\* the k-th frame of its decoder, the tile shows the last frame taken
\* unless it was filled black, and at most one frame is taken per tile and
\* frame index.
C10_Fifo ==
    pc \in {"rendering", "done"} =>
        \A t \in DOMAIN popped :
            /\ popped[t] = [k \in 1..Len(popped[t]) |-> k]
            /\ Len(popped[t]) <= Services(t)
            /\ canvas[t].img \in {0, Len(popped[t])}

C10_Witness ==
    /\ Rendering /\ cfg.fps = 2 /\ NumTiles = 2
    /\ Len(popped[1]) = 3 /\ Len(popped[2]) = 2 /\ canvas[2].img = 2
    /\ Len(queue[2]) = 1 /\ emitted[2] = 3

\* a step of the compositor that services tile tile_idx
ServiceStep == pc = "rendering" /\ tile_idx' = tile_idx + 1
\* the tile serviced next is inside its segment: it shows decoded footage
Playing(t) == ULt(frame_idx, SegEnd(t, split_idx(info.tiles[t], frame_idx)))

\* C11: a decode stream that ends early does not fail the render: a tile
\* inside its segment shows the oldest queued frame as long as one is
\* queued, and is filled black once the queue is empty and the reader has
\* ended; the compositor can always go on then; the other tiles are left
\* alone; render fails only at setup or through the sink; a render that
\* neither stops nor fails invokes the sink for all plan.length indices.
C11_DecodeEnds ==
    /\ [][ServiceStep =>
            LET t == tile_idx IN
            /\ (Playing(t) /\ queue[t] # << >>) =>
                  /\ canvas'[t] = [img |-> Head(queue[t]), gray |-> FALSE]
                  /\ queue'[t] = Tail(queue[t])
            /\ (Playing(t) /\ queue[t] = << >>) =>
                  /\ reader[t] = "done"
                  /\ canvas'[t] = Black
                  /\ popped'[t] = popped[t]
            /\ \A u \in 1..NumTiles : u # t =>
                  /\ canvas'[u] = canvas[u] /\ queue'[u] = queue[u]
                  /\ popped'[u] = popped[u] /\ overlay'[u] = overlay[u]
            /\ result' = result]_vars
    /\ [][(result' = "error" /\ result # "error") =>
            (pc = "planned" \/ (pc = "rendering" /\ tile_idx = NumTiles + 1))]_vars
    /\ []((Rendering /\ tile_idx <= NumTiles /\ reader[tile_idx] = "done")
              => ENABLED ServiceTile)
    /\ [](Completed => Len(sink) = info.length)

C11_Witness ==
    /\ Completed /\ NumTiles = 2 /\ info.length >= 3 /\ Len(sink) = info.length
    /\ popped[1] = <<1>> /\ canvas[1] = Black /\ emitted[1] = 1
    /\ Len(popped[2]) = 3 /\ canvas[2].img = 3

----------------------------------------------------------------------------
(* properties of render_raw, checked under Spec *)

Raw == out = "raw"
LastWrite == written[Len(written)]

\* C12: in render_raw a write that fails with a broken pipe ends the
\* render with success and any other write failure ends it with that
\* error, both at the frame of the write; every earlier write succeeded, so
\* no frame is written after a failed write; frames are written in order,
\* from plan.start on; render_raw stops or fails in no other way once the
\* frame loop runs.
C12_RawWrite ==
    Raw =>
        /\ \A k \in 1..Len(written) :
              /\ written[k][1] >= info.start
              /\ k < Len(written) => /\ written[k][2] = "ok"
                                     /\ written[k + 1][1] = written[k][1] + 1
        /\ (Len(written) > 0 /\ LastWrite[2] = "broken_pipe") =>
              /\ pc = "done" /\ result = "ok" /\ stopped = LastWrite[1]
              /\ sink[Len(sink)][1] = LastWrite[1]
        /\ (Len(written) > 0 /\ LastWrite[2] = "failed") =>
              /\ pc = "done" /\ result = "error" /\ stopped = None
              /\ sink[Len(sink)][1] = LastWrite[1]
        /\ stopped # None => (Len(written) > 0 /\ LastWrite[2] = "broken_pipe")
        /\ (result = "error" /\ Len(sink) > 0) =>
              (Len(written) > 0 /\ LastWrite[2] = "failed")
        /\ Completed => Len(written) = info.length - info.start

C12_Witness ==
    /\ Raw /\ Len(written) = 2 /\ info.start = 1 /\ info.length >= 4
    /\ written[1] = <<1, "ok">> /\ written[2] = <<2, "broken_pipe">>
    /\ result = "ok" /\ Len(sink) = 3

----------------------------------------------------------------------------
(* parse_split_time and format_time (lines 582-626)                        *)
(*                                                                         *)
(* Strings are sequences of one-character strings.  An f64 near a whole    *)
(* number K of milliseconds is the record [ms |-> K, r |-> r, n |-> n]: it *)
(* is the double K/1000 + r/(1000 * 2^n), whose 53-bit mantissa is         *)
(* (K * 2^n + r) / 1000 and whose binary exponent is 52 - n, |r| <= 500.   *)
(* This is exact: rounding K/1000 to 53 bits moves K * 2^n by the residue  *)
(* r to the next multiple of 1000.  nan marks NaN, neg a minus sign.       *)

DigitChars == <<"0", "1", "2", "3", "4", "5", "6", "7", "8", "9">>
Digits == {DigitChars[i] : i \in 1..10}
DigitChar(d) == DigitChars[d + 1]
DigitVal(c) == CHOOSE d \in 0..9 : DigitChars[d + 1] = c
IsDigits(f) == Len(f) > 0 /\ \A i \in 1..Len(f) : f[i] \in Digits

RECURSIVE DecVal(_)
\* the value of a run of decimal digits
DecVal(f) ==
    IF f = << >> THEN 0
    ELSE DecVal(SubSeq(f, 1, Len(f) - 1)) * 10 + DigitVal(f[Len(f)])

RECURSIVE ToDigits(_)
\* the decimal digits of a natural number, as `{}` prints them
ToDigits(x) ==
    IF x < 10 THEN <<DigitChar(x)>>
    ELSE ToDigits(x \div 10) \o <<DigitChar(x % 10)>>

\* `{:0>w}`: padded with zeros on the left to at least w characters
PadLeft(w, x) ==
    LET d == ToDigits(x)
    IN  IF Len(d) >= w THEN d ELSE [i \in 1..(w - Len(d)) |-> "0"] \o d

RECURSIVE Split(_)
\* time_str.split(':') (line 583): the fields between the colons
Split(str) ==
    IF \A i \in 1..Len(str) : str[i] # ":" THEN <<str>>
    ELSE LET i == CHOOSE j \in 1..Len(str) :
                      str[j] = ":" /\ \A l \in 1..(j - 1) : str[l] # ":"
         IN  <<SubSeq(str, 1, i - 1)>> \o Split(SubSeq(str, i + 1, Len(str)))

\* str::parse::<usize> (lines 595-596): digits after an optional '+'
ParseUsize(f) ==
    LET body == IF f # << >> /\ f[1] = "+" THEN Tail(f) ELSE f
    IN  IF IsDigits(body) THEN [ok |-> TRUE, val |-> DecVal(body)]
        ELSE [ok |-> FALSE, val |-> 0]

RECURSIVE Pow2Mod(_)
\* 2^n modulo 1000
Pow2Mod(n) == IF n = 0 THEN 1 ELSE (2 * Pow2Mod(n - 1)) % 1000

\* the binary exponent of K/1000, K >= 1
Exp2(K) ==
    IF K >= 1000
    THEN CHOOSE e \in 0..13 : 1000 * 2^e <= K /\ K < 1000 * 2^(e + 1)
    ELSE CHOOSE e \in -10..-1 : 1000 <= K * 2^(-e) /\ K * 2^(-e) < 2000
\* the binary exponent of the integer K >= 1
Log2(K) == CHOOSE E \in 0..23 : 2^E <= K /\ K < 2^(E + 1)
\* K * 2^n modulo 1000
Residue(K, n) == ((K % 1000) * Pow2Mod(n)) % 1000

F64Zero == [nan |-> FALSE, neg |-> FALSE, ms |-> 0, r |-> 0, n |-> 0]
F64NaN == [nan |-> TRUE, neg |-> FALSE, ms |-> 0, r |-> 0, n |-> 0]

\* the double nearest to K/1000: what parsing a decimal with at most three
\* fraction digits yields, and what an integer of seconds is as f64
F64Near(K) ==
    IF K = 0 THEN F64Zero
    ELSE LET n == 52 - Exp2(K)
             q == Residue(K, n)
         IN  [nan |-> FALSE, neg |-> FALSE, ms |-> K,
              r |-> IF q < 500 THEN -q ELSE 1000 - q, n |-> n]

\* `A as f64 + t` for an integer A >= 0 of seconds and a double t >= 0
\* (line 602): the exact sum rounded to 53 bits, ties to even
F64AddInt(A, t) ==
    IF t.nan THEN F64NaN
    ELSE IF t.ms = 0 THEN F64Near(1000 * A)
    ELSE IF A = 0 THEN t
    ELSE LET K == 1000 * A + t.ms
             nt == 52 - Exp2(K)
             d == t.n - nt
             qt == Residue(K, nt)
             cap == IF d < 11 THEN 2^d ELSE 1024
             tie == d < 11 /\ t.r = (500 - qt) * cap
             down == IF tie THEN (qt \div 8) % 2 = 0
                     ELSE t.r < (500 - qt) * cap
         IN  [nan |-> FALSE, neg |-> FALSE, ms |-> K,
              r |-> IF down THEN -qt ELSE 1000 - qt, n |-> nt]

\* mutant of F64MulTrunc: the product is rounded to the nearest integer
F64MulTrunc_Rounded(t) == t.ms
\* `(time * 1000.0) as u64` (line 610) for a double time >= 0: the product
\* rounded to 53 bits, then truncated; NaN casts to 0
F64MulTrunc(t) ==
    IF t.nan \/ t.ms = 0 THEN 0
    ELSE LET E0 == Log2(t.ms)
             E == IF t.ms = 2^E0 /\ t.r < 0 THEN E0 - 1 ELSE E0
             U == 2^(E - (52 - t.n))
         IN  IF t.r < 0 /\ 2 * (-t.r) > U THEN t.ms - 1 ELSE t.ms

\* str::parse::<f64> (line 597) of a field with at most three fraction
\* digits: sign, then "nan" or digits with an optional point
ParseF64(f) ==
    LET signed == f # << >> /\ f[1] \in {"+", "-"}
        neg == f # << >> /\ f[1] = "-"
        body == IF signed THEN Tail(f) ELSE f
        dots == {i \in 1..Len(body) : body[i] = "."}
        dot == IF dots = {} THEN Len(body) + 1 ELSE CHOOSE i \in dots : \A j \in dots : i <= j
        int == SubSeq(body, 1, dot - 1)
        frac == SubSeq(body, dot + 1, Len(body))
        wellformed == /\ \A i \in 1..Len(int) : int[i] \in Digits
                      /\ \A i \in 1..Len(frac) : frac[i] \in Digits
                      /\ Len(int) + Len(frac) > 0
        ms == DecVal(int) * 1000 + DecVal(frac) * 10^(3 - Len(frac))
    IN  IF body = <<"n", "a", "n">> THEN [ok |-> TRUE, val |-> F64NaN]
        ELSE IF ~wellformed THEN [ok |-> FALSE, val |-> F64Zero]
        ELSE [ok |-> TRUE, val |-> [F64Near(ms) EXCEPT !.neg = neg]]

\* s < 0.0 and s > 60.0 (line 598): false for NaN and for -0.0
F64Neg(t) == ~t.nan /\ t.neg /\ t.ms > 0
F64Over60(t) == ~t.nan /\ ~t.neg /\ t.ms > 60000

\* parse_split_time (lines 582-603)
parse_split_time(str) ==
    LET split == Split(str)
        h_str == IF Len(split) = 3 THEN split[1] ELSE <<"0">>
        m_str == IF Len(split) = 3 THEN split[2]
                 ELSE IF Len(split) = 2 THEN split[1] ELSE <<"0">>
        s_str == split[Len(split)]
        h == ParseUsize(h_str)
        m == ParseUsize(m_str)
        s == ParseF64(s_str)
    IN  IF Len(split) > 3 THEN [status |-> "panic"]
        ELSE IF ~h.ok \/ ~m.ok THEN [status |-> "err_int"]
        ELSE IF ~s.ok THEN [status |-> "err_float"]
        ELSE IF m.val > 60 \/ F64Neg(s.val) \/ F64Over60(s.val)
             THEN [status |-> "err_invalid"]
        ELSE [status |-> "ok",
              time |-> F64AddInt((h.val * 60 + m.val) * 60, s.val)]

\* format_time (lines 605-626) of a double that is not negative
format_time(time) ==
    LET ms_total == F64MulTrunc(time)
        ms == ms_total % 1000
        s_total == ms_total \div 1000
        s == s_total % 60
        m_total == s_total \div 60
        m == m_total % 60
        h_total == m_total \div 60
    IN  IF s_total < 60 THEN PadLeft(2, s_total) \o <<".">> \o PadLeft(3, ms)
        ELSE IF m_total < 60
             THEN PadLeft(2, m_total) \o <<":">> \o PadLeft(2, s)
                      \o <<".">> \o PadLeft(3, ms)
        ELSE PadLeft(2, h_total) \o <<":">> \o PadLeft(2, m) \o <<":">>
                 \o PadLeft(2, s) \o <<".">> \o PadLeft(3, ms)

\* the fields the time strings are built from
HourFields == { <<"0">>, <<"1">>, <<"+", "1">>, <<"x">>, << >> }
MinuteFields == { <<"0">>, <<"1">>, <<"0", "2">>, <<"6", "0">>, <<"6", "1">>, <<"-", "1">> }
SecondFields ==
    { <<"5">>, <<"0", "5">>, <<"0", "3", ".", "4", "5", "6">>,
      <<"1", ".", "0", "0", "1">>, <<"2", ".", "0", "0", "2">>,
      <<"0", ".", "0", "0", "1">>, <<"1", ".", "0", "2", "4">>,
      <<"5", "9", ".", "9", "9", "9">>, <<"6", "0">>,
      <<"6", "0", ".", "0", "0", "1">>, <<".", "5">>, <<"5", ".">>,
      <<"-", "1">>, <<"-", "0">>, <<"n", "a", "n">>, <<"x">>, <<".">>, << >>,
      <<"1", ".", "2", ".", "3">> }
\* time strings of one to five fields
TimeStrings ==
    SecondFields
    \cup {m \o <<":">> \o s : m \in MinuteFields, s \in SecondFields}
    \cup {h \o <<":">> \o m \o <<":">> \o s :
             h \in HourFields, m \in MinuteFields, s \in SecondFields}
    \cup {<<"1", ":", "2", ":", "3">> \o <<":">> \o s : s \in SecondFields}
    \cup {<<":", ":", ":", ":">>}

InitParse ==
    /\ time_str \in TimeStrings
    /\ parsed = [status |-> "none"]
    /\ text = << >>
    /\ pc = "args"
    /\ out = "callback"
    /\ written = << >>
    /\ cfg = [width |-> 8, height |-> 6, fps |-> 1, cmp |-> "None", pause |-> 0,
              inputs |-> << >>]
    /\ probe = << >>
    /\ env = GoodEnv
    /\ prep = "none"
    /\ info = NoInfo
    /\ spawned = 0
    /\ frame_idx = 0
    /\ tile_idx = 1
    /\ frame_cmp_start = None
    /\ queue = << >> /\ reader = << >> /\ hand = << >> /\ emitted = << >>
    /\ rx_alive = FALSE
    /\ popped = << >> /\ canvas = << >> /\ overlay = << >>
    /\ freezes = << >> /\ sink = << >>
    /\ stopped = None
    /\ result = "none"

\* Input::from_args calls parse_split_time on the argument (line 570)
ParseSplitTime ==
    /\ pc = "args"
    /\ parsed' = parse_split_time(time_str)
    /\ pc' = "parsed"
    /\ UNCHANGED <<cfg, probe, env, prep, info, spawned, out, written, time_str, text>>
    /\ UNCHANGED renderVars

\* format_time applied to the parsed time
FormatTime ==
    /\ pc = "parsed"
    /\ parsed.status = "ok"
    /\ text' = format_time(parsed.time)
    /\ pc' = "formatted"
    /\ UNCHANGED <<cfg, probe, env, prep, info, spawned, out, written, time_str, parsed>>
    /\ UNCHANGED renderVars

SpecParse == InitParse /\ [][ParseSplitTime \/ FormatTime]_vars

----------------------------------------------------------------------------
(* properties of parse_split_time and format_time, checked under SpecParse *)

Parsed == pc \in {"parsed", "formatted"}
ParseErrors == {"err_int", "err_float", "err_invalid"}
Fields == Split(time_str)
\* the three components of a time string of one to three fields
HourOf == ParseUsize(IF Len(Fields) = 3 THEN Fields[1] ELSE <<"0">>)
MinuteOf ==
    ParseUsize(IF Len(Fields) = 3 THEN Fields[2]
               ELSE IF Len(Fields) = 2 THEN Fields[1] ELSE <<"0">>)
SecondOf == ParseF64(Fields[Len(Fields)])
\* a component is not a number, minutes exceed 60, or seconds lie outside
\* [0, 60]
BadComponents ==
    \/ ~HourOf.ok \/ ~MinuteOf.ok \/ ~SecondOf.ok \/ SecondOf.val.nan
    \/ MinuteOf.val > 60
    \/ F64Neg(SecondOf.val) \/ F64Over60(SecondOf.val)
\* hours * 3600 + minutes * 60 + seconds, in milliseconds
DenotedMs == (HourOf.val * 3600 + MinuteOf.val * 60) * 1000 + SecondOf.val.ms

\* C13 as stated: parse never crashes; it returns an error value exactly
\* when the number of fields is not 1, 2 or 3, a component is not a number,
\* minutes exceed 60 or seconds lie outside [0, 60]; otherwise it returns
\* hours * 3600 + minutes * 60 + seconds.
C13_Original ==
    Parsed =>
        /\ parsed.status # "panic"
        /\ (Len(Fields) > 3 \/ BadComponents) <=> parsed.status \in ParseErrors
        /\ ~(Len(Fields) > 3 \/ BadComponents) =>
              /\ parsed.status = "ok"
              /\ ~parsed.time.nan /\ parsed.time.ms = DenotedMs

\* C13, what the code does: with more than three fields parse panics; with
\* one to three fields it returns an error value exactly when a component
\* does not parse, minutes exceed 60 or seconds lie outside [0, 60], and
\* otherwise the double nearest to hours * 3600 + minutes * 60 + seconds,
\* except that seconds "nan" are accepted and give NaN.
C13_Parse ==
    Parsed =>
        /\ parsed.status = "panic" <=> Len(Fields) > 3
        /\ Len(Fields) <= 3 =>
              /\ parsed.status \in ParseErrors <=>
                    (BadComponents /\ ~(/\ HourOf.ok /\ MinuteOf.ok /\ MinuteOf.val <= 60
                                        /\ SecondOf.ok /\ SecondOf.val.nan))
              /\ (parsed.status = "ok" /\ ~SecondOf.val.nan) =>
                    /\ ~parsed.time.nan
                    /\ parsed.time.ms = DenotedMs
                    /\ parsed.time.r \in -500..500
              /\ (parsed.status = "ok" /\ SecondOf.val.nan) => parsed.time.nan

C13_Witness ==
    /\ Parsed /\ parsed.status = "panic"
    /\ time_str = <<"1", ":", "2", ":", "3", ":", "5">>

Formatted == pc = "formatted"
\* the number of milliseconds a formatted time denotes
TextFields == Split(text)
TextMs ==
    LET n == Len(TextFields)
        s == ParseF64(TextFields[n]).val.ms
        m == IF n >= 2 THEN DecVal(TextFields[n - 1]) ELSE 0
        h == IF n = 3 THEN DecVal(TextFields[1]) ELSE 0
    IN  (h * 3600 + m * 60) * 1000 + s
\* a 3-digit millisecond fraction, no hour field when the hours are zero, no
\* minute field when hours and minutes are zero, for a time of ms
\* milliseconds
ShapeFor(ms) ==
    /\ Len(text) >= 4 /\ text[Len(text) - 3] = "."
    /\ \A i \in 1..Len(text) : text[i] \in Digits \cup {":", "."}
    /\ Len(TextFields) = (IF ms < 60000 THEN 1 ELSE IF ms < 3600000 THEN 2 ELSE 3)
\* the three time strings the round trip is stated for
IsExample ==
    time_str \in { <<"5">>, <<"1", ":", "0", "5">>,
                   <<"1", ":", "0", "2", ":", "0", "3", ".", "4", "5", "6">> }

\* C15 as stated: for every accepted time string that denotes a whole
\* number of milliseconds, format(parse(s)) denotes the same number of
\* milliseconds, in the stated shape.
C15_Original ==
    (Formatted /\ ~parsed.time.nan) => (TextMs = DenotedMs /\ ShapeFor(DenotedMs))

\* C15, what the code does: format(parse(s)) denotes the milliseconds of s
\* or one millisecond less (the product time * 1000.0 is truncated), in the
\* stated shape for the number it prints; it is exact for "5", "1:05" and
\* "1:02:03.456".
C15_RoundTrip ==
    (Formatted /\ ~parsed.time.nan) =>
        /\ TextMs \in {DenotedMs, DenotedMs - 1}
        /\ TextMs = F64MulTrunc(parsed.time)
        /\ ShapeFor(TextMs)
        /\ (TextMs = DenotedMs - 1) => (parsed.time.r < 0)
        /\ IsExample => TextMs = DenotedMs

C15_Witness ==
    /\ Formatted /\ time_str = <<"1", ".", "0", "0", "1">>
    /\ text = <<"0", "1", ".", "0", "0", "0">>

----------------------------------------------------------------------------
(* the order of checks and spawns in prepare, checked under SpecPrepare *)

CountError == prep \in {"err_count", "err_zero"}

\* C14 as stated: when the checkpoint counts are unequal or zero, prepare
\* returns the configuration error before any process has been spawned.
C14_Original == CountError => spawned = 0

\* C14, what the code does: prepare first looks for ffprobe by spawning it
\* (find_exec), so the count error is returned with exactly that one
\* process spawned and before any source is probed; when ffprobe is not
\* found, nothing is spawned and the error is "ffprobe not found", whatever
\* the counts are.
C14_Spawned ==
    /\ CountError => (spawned = 1 /\ env.ffprobe /\ pc = "done")
    /\ (pc = "done" /\ NumInputs > 0 /\ BadCounts) =>
          /\ env.ffprobe => CountError
          /\ ~env.ffprobe => (prep = "err_ffprobe" /\ spawned = 0)

C14_Witness ==
    /\ prep = "err_count" /\ spawned = 1 /\ NumInputs = 2
    /\ Len(cfg.inputs[1]) = 1 /\ Len(cfg.inputs[2]) = 2

----------------------------------------------------------------------------
(* properties of the split plan, checked under SpecPrepare *)

\* the plan's entry of tile t for checkpoint i
PlanStart(t, i) == info.tiles[t].splits[i][1]
PlanEnd(t, i) == info.tiles[t].splits[i][2]
\* the data model of the sources: the checkpoints of every source are in
\* order (equal ones included)
InOrder ==
    \A t \in 1..NumInputs : \A i \in 1..(Len(cfg.inputs[t]) - 1) :
        cfg.inputs[t][i] <= cfg.inputs[t][i + 1]

\* C16: in the plan of sources whose checkpoints are in order, for every
\* checkpoint i all tiles have the same segmentStart,
\* pauses[i] - segmentStart is the maximum over the tiles of tSplit, every
\* tile's segmentEnd is segmentStart + tSplit <= pauses[i] with equality for
\* at least one tile, and the next segmentStart (plan.length after the last
\* checkpoint) is pauses[i] + round(pauseSeconds * fps).
C16_Sync ==
    (Planned /\ InOrder) =>
        /\ Len(info.pauses) = NumSplits
        /\ \A t \in 1..NumInputs : Len(info.tiles[t].splits) = NumSplits
        /\ \A i \in 1..NumSplits :
              /\ \A t \in 1..NumInputs :
                    /\ PlanStart(t, i) = PlanStart(1, i)
                    /\ PlanEnd(t, i) = PlanStart(t, i) + t_split(cfg, t, i)
                    /\ ULe(PlanEnd(t, i), info.pauses[i])
              /\ info.pauses[i] - PlanStart(1, i) = SyncLen(cfg, i)
              /\ \E t \in 1..NumInputs : PlanEnd(t, i) = info.pauses[i]
              /\ (IF i < NumSplits THEN PlanStart(1, i + 1) ELSE info.length)
                    = info.pauses[i] + pause_frames(cfg)
        /\ \A t \in 1..NumInputs : PlanStart(t, 1) = 0

C16_Witness ==
    /\ Planned /\ NumInputs = 2 /\ NumSplits = 2 /\ pause_frames(cfg) = 2
    /\ PlanEnd(1, 1) < info.pauses[1] /\ PlanEnd(2, 1) = info.pauses[1]
    /\ PlanEnd(1, 2) = info.pauses[2] /\ PlanEnd(2, 2) < info.pauses[2]
    /\ PlanStart(2, 2) = info.pauses[1] + 2

\* the entries of every tile are ordered and disjoint, as u32 values
SplitsOrdered ==
    \A t \in 1..NumInputs : \A i \in 1..Len(info.tiles[t].splits) :
        /\ ULe(PlanStart(t, i), PlanEnd(t, i))
        /\ i < Len(info.tiles[t].splits) =>
              /\ ULe(PlanEnd(t, i), PlanStart(t, i + 1))
              /\ ULe(PlanStart(t, i), PlanStart(t, i + 1))

\* C17 as stated: in every plan prepare returns, for every accepted
\* checkpoint list, each splits entry has segmentEnd >= segmentStart and
\* the entries are non-decreasing and disjoint.
C17_Original == Planned => SplitsOrdered

\* C17, what the code does: the entries are ordered and disjoint when the
\* checkpoints of every source are in order; a plan whose entries are not
\* is returned only by a build without overflow checks, after a u32
\* subtraction of the split loop has wrapped (with overflow checks prepare
\* panics there).
C17_Splits ==
    Planned =>
        /\ InOrder => SplitsOrdered
        /\ ~SplitsOrdered => (env.build = "release" /\ SplitPlan(cfg).ovf)

C17_Witness ==
    /\ Planned /\ env.build = "release" /\ NumInputs = 2
    /\ cfg.inputs[2] = <<1, 0>>
    /\ PlanStart(2, 2) = 2 /\ PlanEnd(2, 2) = 1

----------------------------------------------------------------------------
(* properties of the overlay, checked under Spec *)

\* the overlays drawn at the last serviced frame
Shown == {t \in DOMAIN overlay : overlay[t].shown}

\* C18 as stated: a diff of 0 is white without sign, a nonzero diff from
\* the TimeLoss baseline is green with '-', and any other nonzero diff
\* (TimeSave) is red with '+'.
C18_Original ==
    \A t \in Shown :
        /\ overlay[t].diff = 0 => (overlay[t].color = "white" /\ overlay[t].sign = "")
        /\ (overlay[t].diff # 0 /\ cfg.cmp = "TimeLoss") =>
              (overlay[t].color = "green" /\ overlay[t].sign = "-")
        /\ (overlay[t].diff # 0 /\ cfg.cmp = "TimeSave") =>
              (overlay[t].color = "red" /\ overlay[t].sign = "+")

\* C18 amended: a diff of 0 is white without sign; a nonzero TimeSave diff
\* (the flagged case) is green with '-'; a nonzero diff from the TimeLoss
\* baseline is red with '+'; without a comparison mode nothing is drawn.
C18_Policy ==
    /\ cfg.cmp = "None" => Shown = {}
    /\ \A t \in Shown :
        /\ overlay[t].inv <=> cfg.cmp = "TimeSave"
        /\ overlay[t].diff = 0 => (overlay[t].color = "white" /\ overlay[t].sign = "")
        /\ (overlay[t].diff # 0 /\ cfg.cmp = "TimeSave") =>
              (overlay[t].color = "green" /\ overlay[t].sign = "-")
        /\ (overlay[t].diff # 0 /\ cfg.cmp = "TimeLoss") =>
              (overlay[t].color = "red" /\ overlay[t].sign = "+")

C18_Witness ==
    /\ cfg.cmp = "TimeLoss" /\ Rendering /\ NumTiles = 2 /\ tile_idx = 3
    /\ overlay[1].shown /\ overlay[1].diff = 0 /\ overlay[1].color = "white"
    /\ overlay[2].shown /\ overlay[2].diff = 1 /\ overlay[2].color = "red"
    /\ overlay[2].sign = "+"

TimeLoss == cfg.cmp = "TimeLoss"
\* the segment of the current frame in tile t, and whether the tile waits
\* in it with the overlay armed (frameIndex >= segmentEnd, segmentStart # 0)
CurSeg(t) == split_idx(info.tiles[t], frame_idx)
Waiting(t) == ~Playing(t) /\ SegStart(t, CurSeg(t)) # 0

\* C19 as stated (its last part): in TimeLoss mode a tile that is still
\* playing its own footage shows no overlay, whatever other tiles have
\* done.
C19_Original ==
    (TimeLoss /\ Rendering) =>
        \A t \in 1..NumTiles : (Serviced(t) /\ Playing(t)) => ~overlay[t].shown

\* C19 amended: in TimeLoss mode there is one loss anchor for all tiles.
\* Servicing a tile at frameIndex == segmentStart resets it to none;
\* servicing a waiting tile (frameIndex >= segmentEnd, segmentStart # 0)
\* while it is none stamps it with frameIndex; otherwise it is kept.  The
\* serviced tile, playing or waiting, then shows the u32 difference
\* min(frameIndex, segmentEnd) - anchor if the anchor is set and no overlay
\* if it is none.
C19_SharedAnchor ==
    [][(TimeLoss /\ ServiceStep) =>
          LET t == tile_idx
              start == SegStart(t, CurSeg(t))
              end == SegEnd(t, CurSeg(t))
              kept == IF frame_idx = start THEN None ELSE frame_cmp_start
              m == IF ULt(frame_idx, end) THEN frame_idx ELSE end
          IN  /\ frame_cmp_start' =
                    (IF kept = None /\ Waiting(t) THEN frame_idx ELSE kept)
              /\ overlay'[t].shown <=> (frame_cmp_start' # None)
              /\ overlay'[t].shown =>
                    (~overlay'[t].inv /\ overlay'[t].diff = m - frame_cmp_start')
              /\ \A u \in 1..NumTiles : u # t => overlay'[u] = overlay[u]]_vars

C19_Witness ==
    /\ TimeLoss /\ Rendering /\ NumTiles = 2 /\ tile_idx = 3
    /\ Waiting(1) /\ overlay[1].shown /\ overlay[1].diff = 0
    /\ Playing(2) /\ overlay[2].shown /\ overlay[2].diff = 0
    /\ frame_cmp_start = SegEnd(1, CurSeg(1)) /\ frame_cmp_start = frame_idx
    /\ popped[2] = <<1, 2, 3>> /\ canvas[2].img = 3 /\ env.build = "any"

TimeSave == cfg.cmp = "TimeSave"
\* the overlay of tile t is the diff against the loss anchor
BaselineDrawn(t) == overlay[t].shown /\ ~overlay[t].inv

\* C20 as stated, for the frames it can be about: where every tile of a
\* TimeSave render waits after all were serviced (a TimeSave diff was
\* computed for each), some tile's diff was overwritten by the
\* baseline-anchored diff before it was drawn.
C20_Original ==
    (TimeSave /\ Rendering /\ tile_idx = NumTiles + 1
        /\ \A t \in 1..NumTiles : Waiting(t))
      => \E t \in 1..NumTiles : BaselineDrawn(t)

\* C20 amended: no frame of any render overwrites a TimeSave diff by the
\* baseline-anchored diff: the anchor is stamped only in TimeLoss mode and
\* the TimeSave diff is computed only in TimeSave mode; in TimeSave mode
\* the anchor is none throughout and every overlay drawn is the TimeSave
\* diff.
C20_Exclusive ==
    /\ [](~TimeLoss => frame_cmp_start = None)
    /\ [](TimeSave => \A t \in DOMAIN overlay : ~BaselineDrawn(t))
    /\ [][ServiceStep =>
            LET sv == Service(tile_idx, frame_idx, frame_cmp_start)
            IN  /\ ~(sv.saved /\ sv.anchor # None)
                /\ sv.saved => (overlay'[tile_idx].shown /\ overlay'[tile_idx].inv)]_vars

C20_Witness ==
    /\ TimeSave /\ Rendering /\ NumTiles = 2 /\ tile_idx = 3
    /\ Waiting(1) /\ Waiting(2) /\ frame_cmp_start = None
    /\ overlay[1].shown /\ overlay[1].inv /\ overlay[1].diff = 1
    /\ overlay[2].shown /\ overlay[2].inv /\ overlay[2].diff = 0


----------------------------------------------------------------------------
(* checkpoint alignment *)

\* the decoder of tile t has delivered every frame the compositor asked
\* for, and at least one: the tile shows a decoded frame, not the black fill
Fed(t) == canvas[t].img # 0
\* frames of source t up to its checkpoint i, counted from the tile's offset
UpTo(t, i) == Round(cfg.inputs[t][i], cfg.fps) - info.tiles[t].offset + 1
\* the compositor is at the first frame of segment i and has not yet
\* serviced tile t
AtSegStart(t, i) ==
    Rendering /\ frame_idx = SegStart(t, i) /\ ~Serviced(t)

\* C21: in a render whose decoders are not exhausted, when the compositor
\* reaches the segmentStart of a checkpoint after the first, every tile has
\* popped exactly round(previous checkpoint * fps) - offset + 1 frames, and
\* over a full render a tile pops round(last checkpoint * fps) - offset + 1
\* frames.
C21_Aligned ==
    /\ \A t \in DOMAIN popped : \A i \in 2..NumSplits :
          (AtSegStart(t, i) /\ Fed(t)) => Len(popped[t]) = UpTo(t, i - 1)
    /\ \A t \in DOMAIN popped :
          (Completed /\ Fed(t)) => Len(popped[t]) = UpTo(t, NumSplits)

\* the second tile waited a pause and one frame more than the first and
\* both enter the second segment at their own first checkpoint
C21_Witness ==
    /\ NumTiles = 2 /\ NumSplits = 2 /\ cfg.fps = 2 /\ pause_frames(cfg) = 1
    /\ AtSegStart(1, 2) /\ AtSegStart(2, 2) /\ Fed(1) /\ Fed(2)
    /\ Len(popped[1]) = 2 /\ Len(popped[2]) = 1
    /\ SegEnd(1, 1) = 2 /\ SegEnd(2, 1) = 1 /\ SegStart(1, 2) = 3


----------------------------------------------------------------------------
(* the subtraction of the loss diff (line 424) *)

\* the next step services a tile
ToService == Rendering /\ tile_idx <= NumTiles
\* the anchor the next step subtracts for its tile (after lines 375-377 and
\* 408-413 have run for it), and the end of the tile's segment
NextAnchor == Service(tile_idx, frame_idx, frame_cmp_start).anchor
NextEnd == SegEnd(tile_idx, CurSeg(tile_idx))
\* segment i of tile t holds no frame
ZeroLength(t, i) == SegStart(t, i) = SegEnd(t, i)

\* C22 as stated: in TimeLoss mode, for every tile serviced while the loss
\* anchor is set, min(frameIndex, segmentEnd) >= anchor, so the subtraction
\* never underflows, also when some tile has a zero-length segment.
C22_Original ==
    (TimeLoss /\ ToService /\ NextAnchor # None)
        => ULe(NextAnchor, UMin(frame_idx, NextEnd))

\* C22, what the code does: the subtraction underflows only for a tile
\* whose segment is zero-length and which is followed in tile order by a
\* tile with frames in that segment, in the frames after segmentStart; the
\* anchor is then segmentStart + 1 and the result is -1 (2^32 - 1 in u32).
\* A build with overflow checks panics there; a build without them draws
\* the wrapped value as a loss.
C22_Underflow ==
    /\ (TimeLoss /\ ToService /\ NextAnchor # None
            /\ ~ULe(NextAnchor, UMin(frame_idx, NextEnd)))
         => /\ ZeroLength(tile_idx, CurSeg(tile_idx))
            /\ \E u \in (tile_idx + 1)..NumTiles : ~ZeroLength(u, CurSeg(u))
            /\ frame_idx > SegStart(tile_idx, CurSeg(tile_idx))
            /\ NextAnchor = SegStart(tile_idx, CurSeg(tile_idx)) + 1
            /\ UMin(frame_idx, NextEnd) - NextAnchor = -1
    /\ \A t \in DOMAIN overlay :
          (overlay[t].shown /\ overlay[t].diff < 0)
             => /\ env.build = "release" /\ TimeLoss
                /\ overlay[t].diff = -1 /\ overlay[t].sign = "+"
    /\ (pc = "done" /\ result = "panic" /\ prep = "ok")
          => env.build = "debug" /\ cfg.cmp # "None"

\* sources with checkpoints 0.5, 1.0 and 0.0, 1.0 at 1 fps with a pause of
\* 0.5 s: the first tile's second segment is (3, 3), the second tile's
\* (3, 4); at frame 4 the first tile subtracts the anchor 4 from 3
C22_Witness ==
    /\ TimeLoss /\ ToService /\ tile_idx = 1 /\ frame_idx = 4 /\ cfg.fps = 1
    /\ cfg.inputs = <<(<<1, 2>>), (<<0, 2>>)>> /\ cfg.pause = 1
    /\ info.tiles[1].splits = <<(<<0, 2>>), (<<3, 3>>)>>
    /\ info.tiles[2].splits = <<(<<0, 1>>), (<<3, 4>>)>>
    /\ frame_cmp_start = None /\ NextAnchor = 4 /\ NextEnd = 3


----------------------------------------------------------------------------
(* blocking and termination, checked under SpecLive *)

\* the compositor is blocked in recv for the tile it services next
CompositorBlocked == ToService /\ ~ENABLED ServiceTile
\* the reader of tile t is blocked in send: the buffer is full and the
\* receiver exists
ReaderBlocked(t) == reader[t] = "send" /\ rx_alive /\ Len(queue[t]) >= cfg.fps
\* the sink was invoked k times
SinkCalls == Len(sink)

\* C23: if every decoder eventually delivers its next frame or ends its
\* stream and the sink always returns, the compositor and the reader threads
\* are never all blocked (a compositor blocked in recv waits for a reader
\* that can run), and render returns after at most plan.length sink
\* invocations.
C23_Terminates ==
    /\ [](CompositorBlocked =>
            reader[tile_idx] # "done" /\ ~ReaderBlocked(tile_idx))
    /\ [](SinkCalls <= info.length)
    /\ <>(pc = "done")
    /\ [][pc = "done" => (pc' = "done" /\ sink' = sink)]_vars

\* the compositor waits for a frame of the first tile while the reader of
\* the second is blocked on its full buffer
C23_Witness ==
    /\ CompositorBlocked /\ tile_idx = 1 /\ NumTiles = 2
    /\ ReaderBlocked(2) /\ reader[1] = "read" /\ SinkCalls > 0


----------------------------------------------------------------------------
(* the grid cells, checked under SpecPrepare *)

\* the grid cell of input t: column and row (lines 138-139), the row's
\* horizontal offset (lines 141-146), and the cell's corner
CellCol(t) == (t - 1) % tiles_x(NumInputs)
CellRow(t) == (t - 1) \div tiles_x(NumInputs)
LastRow(t) == CellRow(t) = tiles_y(NumInputs) - 1
CellX(t) ==
    (IF LastRow(t) THEN tiles_off_x_last(cfg, NumInputs)
     ELSE tiles_off_x(cfg, NumInputs)) + CellCol(t) * box_width(cfg, NumInputs)
CellY(t) == tiles_off_y(cfg, NumInputs) + CellRow(t) * box_height(cfg, NumInputs)
\* the tile of input t lies inside its cell
InCell(t) ==
    LET tile == info.tiles[t] IN
    /\ CellX(t) <= tile.x
    /\ tile.x + tile.width <= CellX(t) + box_width(cfg, NumInputs)
    /\ CellY(t) <= tile.y
    /\ tile.y + tile.height <= CellY(t) + box_height(cfg, NumInputs)
\* the intervals [a, a + m) and [b, b + n) share a point
Meet(a, m, b, n) ==
    (IF a >= b THEN a ELSE b) < (IF a + m <= b + n THEN a + m ELSE b + n)
\* the rectangles of tiles t and u share a pixel
Overlap(t, u) ==
    /\ Meet(info.tiles[t].x, info.tiles[t].width,
            info.tiles[u].x, info.tiles[u].width)
    /\ Meet(info.tiles[t].y, info.tiles[t].height,
            info.tiles[u].y, info.tiles[u].height)

\* C24: for every source count, canvas size and native sizes, the tile
\* rectangles of two distinct sources never overlap: each tile lies inside
\* its own grid cell, also in a ragged last row with its own horizontal
\* offset.
C24_Cells ==
    Planned =>
        /\ \A t \in 1..NumInputs : InCell(t)
        /\ \A t, u \in 1..NumInputs : t # u => ~Overlap(t, u)

\* five sources on a 6 x 6 canvas: the last row holds two tiles and starts
\* one pixel further right than the full row, and a tall source is narrower
\* than its cell
C24_Witness ==
    /\ Planned /\ NumInputs = 5 /\ cfg.width = 6 /\ cfg.height = 6
    /\ LastRow(4) /\ LastRow(5) /\ ~LastRow(3)
    /\ CellX(4) = 1 /\ CellX(5) = 3 /\ CellX(1) = 0
    /\ info.tiles[4].x = 1 /\ info.tiles[4].width = 2
    /\ info.tiles[5].width < box_width(cfg, 5) /\ info.tiles[5].x > CellX(5)
    /\ info.tiles[5].height = box_height(cfg, 5)


\* render has returned, by its last frame, a stop or an error of the sink,
\* or a panic
Returned == pc = "done"
\* the reader of tile t holds a frame for a buffer that is full
SendPending(t) == reader[t] = "send" /\ Len(queue[t]) >= cfg.fps
ReadersDone == \A t \in DOMAIN reader : reader[t] = "done"

\* C25: after render returns for any reason, every reader thread eventually
\* terminates, provided its decoder keeps producing or ends: a reader
\* blocked pushing into a full queue is released with a send failure once
\* the receivers are dropped, and no frame is pushed afterwards.
C25_ReadersEnd ==
    /\ Returned ~> ReadersDone
    /\ [][Returned => queue' = queue]_vars
    /\ [][\A t \in DOMAIN reader :
            (Returned /\ SendPending(t) /\ reader'[t] # reader[t])
                => reader'[t] = "done"]_vars
    /\ [](Returned /\ DOMAIN reader # {} =>
            \A t \in DOMAIN reader : SendPending(t) => ENABLED ReaderSend(t))

\* the sink stopped the render while the reader of the first tile was
\* blocked on its full buffer and the second was about to read
C25_Witness ==
    /\ Returned /\ result = "ok" /\ stopped # None /\ NumTiles = 2
    /\ SendPending(1) /\ reader[2] = "read" /\ ~rx_alive
    /\ Len(sink) < info.length

=============================================================================
